---- MODULE Spec2Model ----
(***************************************************************************)
(* Model of macro_data.py: four source adapters (fetch_wgc, fetch_gld,     *)
(* fetch_iau, fetch_cot), the digest assembly in run(), the notifier       *)
(* tg_send() and the outer try/except of __main__.                         *)
(*                                                                         *)
(* Texts are sequences of lines, a line is a record with its kind in k,    *)
(* the blank line is [k |-> ""].  Amounts are integers (hundredths), so the*)
(* two-decimal rendering of the code is exact.  A Python exception is a    *)
(* value [t |-> "exc", e |-> cause]; a normal return is                    *)
(* [t |-> "ret", v |-> value].                                             *)
(***************************************************************************)
EXTENDS Integers, Sequences, FiniteSets, TLC

VARIABLES
    TOKEN,      \* os.getenv("TG_TOKEN"): "None", "" or a token
    CHAT_ID,    \* os.getenv("TG_CHAT_ID"): "None", "" or an id
    web,        \* what each source answers to the single fetch of this run
    pc,         \* position of the process in __main__ / run()
    parts,      \* the list `parts` of run()
    stdout,     \* texts printed so far
    posts,      \* requests.post calls made by tg_send: [text, outcome]
    exc,        \* the exception travelling to / caught by __main__ ("none" if none)
    probe       \* a direct application of a helper: [fn, arg, ret]

vars == <<TOKEN, CHAT_ID, web, pc, parts, stdout, posts, exc, probe>>

(***************************************************************************)
(* Bounds of the model                                                     *)
(***************************************************************************)
MaxRows == 6        \* longest time series drawn for fetch_gld / fetch_iau
MaxCellLen == 4     \* longest cell text drawn for the numeric normalization
MaxRank == 6        \* longest Change column drawn for the ranking
MaxTblRows == 12    \* most rows of a reserves table

(***************************************************************************)
(* Generic helpers                                                         *)
(***************************************************************************)
Ret(v) == [t |-> "ret", v |-> v]
Raise(e) == [t |-> "exc", e |-> e]

Range(s) == {s[i] : i \in 1..Len(s)}

Abs(x) == IF x < 0 THEN -x ELSE x

Reverse(s) == [i \in 1..Len(s) |-> s[Len(s) + 1 - i]]

RECURSIVE Flatten(_)
Flatten(ss) == IF ss = <<>> THEN <<>> ELSE Head(ss) \o Flatten(Tail(ss))

SelectIdx(s, P(_)) == {i \in 1..Len(s) : P(s[i])}

\* The orders a sort of the index set S, descending by key, can put first:
\* every sequence of min(k, |S|) indices in which each element has a maximal
\* key among those not yet placed.  Equal keys may come out in any order
\* (the default sort kind of sort_values is not stable).
RECURSIVE TopOrders(_, _, _)
TopOrders(S, key, k) ==
    IF S = {} \/ k = 0 THEN {<<>>}
    ELSE LET top == {i \in S : \A j \in S : key[j] <= key[i]}
         IN  UNION {{<<i>> \o t : t \in TopOrders(S \ {i}, key, k - 1)} : i \in top}

(***************************************************************************)
(* Numeric normalization of a table cell (fetch_wgc, lines 76-84).         *)
(* A cell text is a sequence of characters; "u2212" is the Unicode minus,  *)
(* "en" and "em" the en and em dash, "x" any other character.  An empty    *)
(* HTML cell (NaN, rendered "nan" by astype(str)) is the empty sequence.   *)
(* A numeric value is Num(n) or NaN.                                       *)
(***************************************************************************)
NaN == [nan |-> TRUE]
Num(n) == [v |-> n]

Digits == {"0", "1", "2", "3", "4", "5", "6", "7", "8", "9"}

DigitVal(c) ==
    CASE c = "0" -> 0 [] c = "1" -> 1 [] c = "2" -> 2 [] c = "3" -> 3
      [] c = "4" -> 4 [] c = "5" -> 5 [] c = "6" -> 6 [] c = "7" -> 7
      [] c = "8" -> 8 [] c = "9" -> 9

\* str.replace(old, new) on one text: every occurrence of the character old
\* becomes the text new.
RECURSIVE StrReplace(_, _, _)
StrReplace(s, old, new) ==
    IF s = <<>> THEN <<>>
    ELSE (IF Head(s) = old THEN new ELSE <<Head(s)>>) \o StrReplace(Tail(s), old, new)

RECURSIVE DigitsValue(_)
DigitsValue(s) ==
    IF s = <<>> THEN 0 ELSE 10 * DigitsValue(SubSeq(s, 1, Len(s) - 1)) + DigitVal(s[Len(s)])

\* pd.to_numeric(..., errors="coerce") on one text: an optional ASCII minus and
\* then digits is a number, anything else (the empty text too) is NaN.
ToNumeric(s) ==
    LET neg == s /= <<>> /\ Head(s) = "-"
        body == IF neg THEN Tail(s) ELSE s
    IN  IF body /= <<>> /\ \A i \in 1..Len(body) : body[i] \in Digits
        THEN Num(IF neg THEN -DigitsValue(body) ELSE DigitsValue(body))
        ELSE NaN

\* The chain of replacements of lines 79-82.
CleanCell(s) ==
    StrReplace(StrReplace(StrReplace(StrReplace(s, ",", <<>>), "u2212", <<"-">>), "en", <<>>), "em", <<>>)

Normalize(cell) == ToNumeric(CleanCell(cell))

(***************************************************************************)
(* 1. fetch_wgc: central-bank reserves, monthly change TOP5                *)
(* A table is [cols |-> names in order, col |-> name -> cells in row order]*)
(***************************************************************************)
Blank == [k |-> ""]
StatusLine(src, what) == [k |-> "status", src |-> src, what |-> what]

NRows(t) == IF t.cols = <<>> THEN 0 ELSE Len(t.col[t.cols[1]])

\* "country" in str(c).lower(), over the column names the model draws.
HasCountry(name) == name \in {"Country", "COUNTRY/REGION", "country"}

\* head(5)
TopK == 5

\* df_num[col].notna().sum() > 10
MinSupport == 10

NotNaCount(cells) == Cardinality({i \in 1..Len(cells) : Normalize(cells[i]) /= NaN})

\* Mutant of Supported: `>=` where the code has `>`.
Supported_AtLeast(cells) == NotNaCount(cells) >= MinSupport

Supported(cells) == NotNaCount(cells) > MinSupport

\* num_cols: the columns after the first whose normalized cells pass the
\* support threshold, in column order (lines 86-89).
RECURSIVE NumCols(_, _)
NumCols(t, names) ==
    IF names = <<>> THEN <<>>
    ELSE (IF Supported(t.col[Head(names)]) THEN <<Head(names)>> ELSE <<>>)
         \o NumCols(t, Tail(names))

\* df_num["Change"] = df_num[cur_col] - df_num[prev_col]
Change(t, prev, cur) ==
    [i \in 1..NRows(t) |->
        LET a == Normalize(t.col[cur][i])
            b == Normalize(t.col[prev][i])
        IN  IF a = NaN \/ b = NaN THEN NaN ELSE Num(a.v - b.v)]

\* tmp = df_num[[country_col, "Change"]].dropna(): the rows kept.
DropNa(names, change) == {i \in 1..Len(change) : names[i] /= <<>> /\ change[i] /= NaN}

\* tmp.sort_values("abs_change", ascending=False).head(5): the possible results,
\* as sequences of row numbers of the original table.
SortHead(kept, change) == TopOrders(kept, [i \in kept |-> Abs(change[i].v)], TopK)

\* Lines 97-100 on a country column and a Change column.
Rank(names, change) == SortHead(DropNa(names, change), change)

RankLines(names, change, order) ==
    [j \in 1..Len(order) |->
        [k |-> "row", name |-> names[order[j]], change |-> change[order[j]].v]]

\* pd.read_html(html): raises when the page holds no table.
ReadHtml(body) == IF body.tables = <<>> THEN Raise("No tables found") ELSE Ret(body.tables)

\* for t in tables: ... break (lines 58-63): the first table with a country column.
TargetIdx(tables) ==
    LET hit == {i \in 1..Len(tables) : \E c \in Range(tables[i].cols) : HasCountry(c)}
    IN  IF hit = {} THEN 0 ELSE CHOOSE i \in hit : \A j \in hit : i <= j

\* The try block of fetch_wgc: the set of its possible results.
fetch_wgc_body(resp) ==
    IF ~resp.ok THEN {Raise(resp.err)}
    ELSE LET rd == ReadHtml(resp.body) IN
    IF rd.t = "exc" THEN {rd}
    ELSE IF rd.v = <<>> THEN {Ret(<<StatusLine("WGC", "no_tables")>>)}
    ELSE IF TargetIdx(rd.v) = 0 THEN {Ret(<<StatusLine("WGC", "no_country_table")>>)}
    ELSE LET df == rd.v[TargetIdx(rd.v)]
             country_col == df.cols[1]
             num_cols == NumCols(df, Tail(df.cols))
         IN  IF Len(num_cols) < 2
             THEN {Ret(<<StatusLine("WGC", "not_enough_numeric_columns")>>)}
             ELSE LET prev_col == num_cols[Len(num_cols) - 1]
                      cur_col == num_cols[Len(num_cols)]
                      names == df.col[country_col]
                      chg == Change(df, prev_col, cur_col)
                  IN  {Ret(<<StatusLine("WGC", "top5"),
                             [k |-> "compare", prev |-> prev_col, cur |-> cur_col]>>
                           \o RankLines(names, chg, o)) : o \in Rank(names, chg)}

\* except Exception as e: return the failure status naming the source.
Catch(r, src) ==
    IF r.t = "exc" THEN Ret(<<StatusLine(src, "skipped"), [k |-> "reason", e |-> r.e]>>) ELSE r

fetch_wgc(resp) == {Catch(r, "WGC") : r \in fetch_wgc_body(resp)}
(***************************************************************************)
(* 2. fetch_gld and 3. fetch_iau: a dated series, day change and change    *)
(* over the last five rows.  A date cell is [d |-> day number] or          *)
(* BadCell (a text pd.to_datetime rejects); a value cell is Num(n) or      *)
(* BadCell (a text float() rejects, such as "HOLIDAY").                    *)
(***************************************************************************)
BadCell == [bad |-> TRUE]

\* df.tail(5) (line 150 and line 200)
Lookback == 5

\* Mutant of MinRows: the check is off by one.
MinRows_OffByOne == Lookback - 1

\* if len(df) < 5 (line 147 and line 194)
MinRows == 5

\* "Tonne" in c or "Tonnes" in c, over the column names the model draws.
HasTonne(name) == name \in {"Tonnes", "Total Tonnes", "Tonne"}

\* Mutant of SortTail: the tail of the payload as it came, without the sort.
SortTail_Unsorted(df) ==
    LET n == NRows(df)
        m == IF n < Lookback THEN n ELSE Lookback
    IN  {[i \in 1..m |-> n - m + i]}

\* df.sort_values("Date").tail(5): the possible windows, oldest row first, as
\* row numbers of the payload.  Rows of equal date may come out in any order.
SortTail(df) ==
    LET n == NRows(df)
        key == [i \in 1..n |-> df.col["Date"][i].d]
    IN  {Reverse(o) : o \in TopOrders(1..n, key, Lookback)}

\* Lines 150-170 for one window: float() of the three cells used, the deltas,
\* the status lines.
GldCompute(df, t_col, last5) ==
    LET today_row == last5[Len(last5)]
        prev_row == last5[Len(last5) - 1]
        first_row == last5[1]
        today_tonnes == df.col[t_col][today_row]
        prev_tonnes == df.col[t_col][prev_row]
        first_tonnes == df.col[t_col][first_row]
    IN  IF BadCell \in {today_tonnes, prev_tonnes, first_tonnes}
        THEN Raise("could not convert string to float")
        ELSE Ret(<<StatusLine("GLD", "holdings"),
                   [k |-> "date", d |-> df.col["Date"][today_row].d],
                   [k |-> "latest", v |-> today_tonnes.v],
                   [k |-> "day", v |-> today_tonnes.v - prev_tonnes.v],
                   [k |-> "five", v |-> today_tonnes.v - first_tonnes.v]>>)

\* The try block of fetch_gld: the set of its possible results.
fetch_gld_body(resp) ==
    IF ~resp.ok THEN {Raise(resp.err)}
    ELSE LET df == resp.body
             tonne_cols == SelectSeq(df.cols, HasTonne)
         IN  IF "Date" \notin Range(df.cols) THEN {Raise("GLD CSV has no Date column")}
             ELSE IF BadCell \in Range(df.col["Date"]) THEN {Raise("Unknown datetime string format")}
             ELSE IF tonne_cols = <<>> THEN {Raise("no Tonnes column")}
             ELSE IF NRows(df) < MinRows THEN {Raise("GLD history has fewer than 5 rows")}
             ELSE {GldCompute(df, tonne_cols[1], w) : w \in SortTail(df)}

\* Mutant of fetch_gld: the try block without its except clause.
fetch_gld_NoCatch(resp) == fetch_gld_body(resp)

fetch_gld(resp) == {Catch(r, "GLD") : r \in fetch_gld_body(resp)}

\* day_change / prev_close * 100 if prev_close != 0 else 0.0, kept as an exact
\* fraction.
Pct(change, base) ==
    IF base /= 0 THEN [num |-> change * 100, den |-> base] ELSE [num |-> 0, den |-> 1]

\* Lines 200-223 for one window.
IauCompute(df, last5) ==
    IF "Close" \notin Range(df.cols) THEN Raise("KeyError: Close")
    ELSE LET today == df.col["Close"][last5[Len(last5)]]
             prev == df.col["Close"][last5[Len(last5) - 1]]
             first == df.col["Close"][last5[1]]
         IN  IF BadCell \in {today, prev, first}
             THEN Raise("could not convert string to float")
             ELSE Ret(<<StatusLine("IAU", "price"),
                        [k |-> "date", d |-> df.col["Date"][last5[Len(last5)]].d],
                        [k |-> "latest", v |-> today.v],
                        [k |-> "day", v |-> today.v - prev.v,
                         pct |-> Pct(today.v - prev.v, prev.v)],
                        [k |-> "five", v |-> today.v - first.v,
                         pct |-> Pct(today.v - first.v, first.v)]>>)

\* The try block of fetch_iau: the set of its possible results.
fetch_iau_body(resp) ==
    IF ~resp.ok THEN {Raise(resp.err)}
    ELSE LET df == resp.body
         IN  IF NRows(df) < MinRows THEN {Raise("IAU history has fewer than 5 rows")}
             ELSE IF "Date" \notin Range(df.cols) THEN {Raise("KeyError: Date")}
             ELSE IF BadCell \in Range(df.col["Date"]) THEN {Raise("Unknown datetime string format")}
             ELSE {IauCompute(df, w) : w \in SortTail(df)}

fetch_iau(resp) == {Catch(r, "IAU") : r \in fetch_iau_body(resp)}

(***************************************************************************)
(* 4. fetch_cot: Managed Money net position of the gold contract.          *)
(* A value cell is Num(n), NaN (an empty field, which float() accepts) or  *)
(* BadCell.  A market-name cell is a string.                                *)
(***************************************************************************)
None == [none |-> TRUE]

\* str.contains("GOLD", case=False, na=False), over the market names drawn.
ContainsGold(name) == name \in {"GOLD - COMEX", "Micro Gold - COMEX"}

\* Mutant of get_float: the first column of the row, in the row's own order,
\* that is one of the candidates and converts.
get_float_RowOrder(series, name_list) ==
    LET hit == {i \in 1..Len(series.index) :
                  /\ series.index[i] \in Range(name_list)
                  /\ series.at[series.index[i]] /= BadCell}
    IN  IF hit = {} THEN None
        ELSE series.at[series.index[CHOOSE i \in hit : \A j \in hit : i <= j]]

\* get_float(series, name_list) (lines 269-277): the first candidate that is in
\* the row's index and that float() converts.
RECURSIVE get_float(_, _)
get_float(series, name_list) ==
    IF name_list = <<>> THEN None
    ELSE IF Head(name_list) \in Range(series.index) /\ series.at[Head(name_list)] /= BadCell
         THEN series.at[Head(name_list)]
         ELSE get_float(series, Tail(name_list))

LongNames == <<"M_Money_Long_All", "M_Money_Long_All_Combin", "Money_Mgt_Long_All">>
ShortNames == <<"M_Money_Short_All", "M_Money_Short_All_Combin", "Money_Mgt_Short_All">>
LongChgNames ==
    <<"M_Money_Long_All_Change", "M_Money_Long_All_Chg", "Money_Mgt_Long_All_Change">>
ShortChgNames ==
    <<"M_Money_Short_All_Change", "M_Money_Short_All_Chg", "Money_Mgt_Short_All_Change">>

\* Float subtraction: NaN if either operand is NaN.
Sub(a, b) == IF a = NaN \/ b = NaN THEN NaN ELSE Num(a.v - b.v)

\* Lines 260-267: the report date, reformatted when it reads as YYMMDD and
\* left as found otherwise ("" when the column is absent).
ReportDate(series) ==
    IF "As_of_Date_In_Form_YYMMDD" \notin Range(series.index) THEN [raw |-> "empty"]
    ELSE LET c == series.at["As_of_Date_In_Form_YYMMDD"]
         IN  IF c \in {NaN, BadCell} THEN [raw |-> "as found"] ELSE [iso |-> c.v]

\* The try block of fetch_cot.
fetch_cot_body(resp) ==
    IF ~resp.ok THEN Raise(resp.err)
    ELSE LET df == resp.body
             n == NRows(df)
             mkt == "Market_and_Exchange_Names"
         IN
    IF mkt \notin Range(df.cols) THEN Raise("COT file has no Market_and_Exchange_Names column")
    ELSE LET gold_df == {i \in 1..n : ContainsGold(df.col[mkt][i])} IN
    IF gold_df = {} THEN Ret(<<StatusLine("COT", "no_gold_contract")>>)
    ELSE LET li == CHOOSE i \in gold_df : \A j \in gold_df : j <= i
             last == [index |-> df.cols, at |-> [c \in Range(df.cols) |-> df.col[c][li]]]
             mm_long == get_float(last, LongNames)
             mm_short == get_float(last, ShortNames)
             mm_long_chg == get_float(last, LongChgNames)
             mm_short_chg == get_float(last, ShortChgNames)
         IN  IF mm_long = None \/ mm_short = None
             THEN Ret(<<StatusLine("COT", "unparsed_positions")>>)
             ELSE Ret(<<StatusLine("COT", "positioning"),
                        [k |-> "week", date |-> ReportDate(last)],
                        [k |-> "net", v |-> Sub(mm_long, mm_short)]>>
                      \o (IF mm_long_chg /= None /\ mm_short_chg /= None
                          THEN <<[k |-> "net_chg", v |-> Sub(mm_long_chg, mm_short_chg)]>>
                          ELSE <<>>))

fetch_cot(resp) == {Catch(fetch_cot_body(resp), "COT")}
(***************************************************************************)
(* tg_send, run and __main__                                               *)
(***************************************************************************)
\* Python truthiness of an os.getenv result: None and "" are false.
Truthy(x) == x \notin {"None", ""}

\* Mutant of Configured: `and` where the code has `or`.
Configured_Either(token, chat_id) == ~(~Truthy(token) /\ ~Truthy(chat_id))

\* `if not TOKEN or not CHAT_ID` is false: both credentials are usable.
Configured(token, chat_id) == ~(~Truthy(token) \/ ~Truthy(chat_id))

NoticeText == <<[k |-> "telegram_not_configured"]>>
SendFailedText == <<[k |-> "telegram_send_failed"]>>
ResponseText == <<[k |-> "telegram_response"]>>

\* tg_send(text) when the notifier answers `outcome` to a post: what is
\* printed, what is posted, and whether requests.post raised.  A post that
\* raises is outside tg_send's own try (line 27), a non-2xx answer is inside
\* it (lines 28-32).
tg_send(text, token, chat_id, outcome) ==
    IF ~Configured(token, chat_id)
    THEN [t |-> "ret", prints |-> <<NoticeText, text>>, posts |-> <<>>]
    ELSE LET post == <<[text |-> text, outcome |-> outcome]>> IN
         CASE outcome = "raise" ->
                [t |-> "exc", e |-> "ConnectionError", prints |-> <<>>, posts |-> post]
           [] outcome = "http_error" ->
                [t |-> "ret", prints |-> <<SendFailedText, ResponseText>>, posts |-> post]
           [] OTHER ->
                [t |-> "ret", prints |-> <<>>, posts |-> post]

\* What the notifier answers to the next post of this run.
NextOutcome == web.TG[Len(posts) + 1]

Header == [k |-> "header", date |-> "UTC today"]

\* Mutant of AppendSection: a failed adapter's status is left out of the digest.
AppendSection_DropFailed(ps, status, last) ==
    IF status[1].what = "skipped" THEN ps
    ELSE ps \o <<status>> \o (IF last THEN <<>> ELSE <<<<Blank>>>>)

\* parts.append(status); parts.append("") (no blank after the last source).
AppendSection(ps, status, last) == ps \o <<status>> \o (IF last THEN <<>> ELSE <<<<Blank>>>>)

\* "\n".join(parts)
Join(ps) == Flatten(ps)

\* One `parts.append(fetch_xxx())` of run(): an exception leaving the adapter
\* leaves run() too.
Call(here, results, next, last) ==
    /\ pc = here
    /\ \E r \in results :
         IF r.t = "exc"
         THEN /\ pc' = "except"
              /\ exc' = r.e
              /\ UNCHANGED parts
         ELSE /\ pc' = next
              /\ parts' = AppendSection(parts, r.v, last)
              /\ UNCHANGED exc
    /\ UNCHANGED <<TOKEN, CHAT_ID, web, stdout, posts, probe>>

Start ==
    /\ pc = "start"
    /\ parts' = <<<<Header>>, <<Blank>>>>
    /\ pc' = "wgc"
    /\ UNCHANGED <<TOKEN, CHAT_ID, web, stdout, posts, exc, probe>>

CallWgc == Call("wgc", fetch_wgc(web.WGC), "gld", FALSE)
CallGld == Call("gld", fetch_gld(web.GLD), "iau", FALSE)
CallIau == Call("iau", fetch_iau(web.IAU), "cot", FALSE)
CallCot == Call("cot", fetch_cot(web.COT), "print", TRUE)

\* msg = "\n".join(parts); print(msg)
PrintDigest ==
    /\ pc = "print"
    /\ stdout' = Append(stdout, Join(parts))
    /\ pc' = "send"
    /\ UNCHANGED <<TOKEN, CHAT_ID, web, parts, posts, exc, probe>>

\* tg_send(msg), the last statement of run()
SendDigest ==
    /\ pc = "send"
    /\ LET r == tg_send(Join(parts), TOKEN, CHAT_ID, NextOutcome)
       IN  /\ stdout' = stdout \o r.prints
           /\ posts' = posts \o r.posts
           /\ IF r.t = "exc"
              THEN pc' = "except" /\ exc' = r.e
              ELSE pc' = "done" /\ UNCHANGED exc
    /\ UNCHANGED <<TOKEN, CHAT_ID, web, parts, probe>>

ErrText(e) == <<[k |-> "unhandled_error", e |-> e]>>

\* except Exception as e: print(err_msg); tg_send(err_msg).  An exception
\* raised here ends the process with a traceback.
HandleError ==
    /\ pc = "except"
    /\ LET r == tg_send(ErrText(exc), TOKEN, CHAT_ID, NextOutcome)
       IN  /\ stdout' = stdout \o <<ErrText(exc)>> \o r.prints
           /\ posts' = posts \o r.posts
           /\ IF r.t = "exc"
              THEN pc' = "crashed" /\ exc' = r.e
              ELSE pc' = "done" /\ exc' = "none"
    /\ UNCHANGED <<TOKEN, CHAT_ID, web, parts, probe>>

Next ==
    \/ Start
    \/ CallWgc
    \/ CallGld
    \/ CallIau
    \/ CallCot
    \/ PrintDigest
    \/ SendDigest
    \/ HandleError
(***************************************************************************)
(* Direct applications of the two pure helpers of fetch_wgc                *)
(***************************************************************************)
NoProbe == [fn |-> "none"]

\* The normalization of lines 76-84 applied to one cell.
NormalizeCell ==
    /\ probe.fn = "normalize"
    /\ ~probe.done
    /\ probe' = [probe EXCEPT !.done = TRUE, !.ret = Normalize(probe.arg)]
    /\ UNCHANGED <<TOKEN, CHAT_ID, web, pc, parts, stdout, posts, exc>>

\* The ranking of lines 97-109 applied to a country column and a Change column.
RankRows ==
    /\ probe.fn = "rank"
    /\ ~probe.done
    /\ \E o \in Rank(probe.arg.names, probe.arg.change) :
         probe' = [probe EXCEPT !.done = TRUE,
                                !.ret = [order |-> o,
                                         lines |-> RankLines(probe.arg.names, probe.arg.change, o)]]
    /\ UNCHANGED <<TOKEN, CHAT_ID, web, pc, parts, stdout, posts, exc>>

(***************************************************************************)
(* Payloads                                                                *)
(***************************************************************************)
Transport == [ok |-> FALSE, err |-> "ConnectionError"]
Page(b) == [ok |-> TRUE, body |-> b]

DigitChar(d) ==
    CASE d = 0 -> "0" [] d = 1 -> "1" [] d = 2 -> "2" [] d = 3 -> "3" [] d = 4 -> "4"
      [] d = 5 -> "5" [] d = 6 -> "6" [] d = 7 -> "7" [] d = 8 -> "8" [] d = 9 -> "9"

RECURSIVE DigitsOf(_)
DigitsOf(n) == IF n < 10 THEN <<DigitChar(n)>> ELSE DigitsOf(n \div 10) \o <<DigitChar(n % 10)>>

\* n >= 0 written with comma thousands separators.
RECURSIVE Grouped(_)
Grouped(n) ==
    IF n < 1000 THEN DigitsOf(n)
    ELSE Grouped(n \div 1000)
         \o <<",", DigitChar((n % 1000) \div 100), DigitChar((n % 100) \div 10), DigitChar(n % 10)>>

\* A number as the reserves page writes it: Unicode minus, comma separators.
CellText(v) == IF v < 0 THEN <<"u2212">> \o Grouped(-v) ELSE Grouped(v)

CountryName(i) == <<"c">> \o DigitsOf(i)

\* The value of data column j (1, 2, 3) in row i: signs alternate by row and the
\* differences between two columns have a different size in every row.
WgcValue(i, j) == (IF i % 2 = 1 THEN -1 ELSE 1) * i * j * 100

\* A reserves table of n rows whose data columns Jan, Feb, Mar hold k[1], k[2],
\* k[3] numeric cells, the other cells being dash placeholders; the numeric
\* cells come last when `lead` and first otherwise.
WgcTable(n, k, lead) ==
    LET data(j) == [i \in 1..n |->
                      IF (IF lead THEN i > n - k[j] ELSE i <= k[j])
                      THEN CellText(WgcValue(i, j)) ELSE <<"em">>]
    IN  [cols |-> <<"Country", "Jan", "Feb", "Mar">>,
         col |-> [c \in {"Country", "Jan", "Feb", "Mar"} |->
                     CASE c = "Country" -> [i \in 1..n |-> CountryName(i)]
                       [] c = "Jan" -> data(1)
                       [] c = "Feb" -> data(2)
                       [] c = "Mar" -> data(3)]]

NoCountryTable ==
    [cols |-> <<"Rank", "Tonnes">>,
     col |-> [c \in {"Rank", "Tonnes"} |-> [i \in 1..2 |-> DigitsOf(i)]]]

\* The value in payload row i of a series; the first five are 10, 12, 11, 15, 20.
ValOf(i) ==
    CASE i = 1 -> 10 [] i = 2 -> 12 [] i = 3 -> 11 [] i = 4 -> 15 [] OTHER -> 20 + 3 * (i - 5)

\* A series payload: row i carries the date dates[i] and the value ValOf(i) in
\* the column valcol.  Variants: a text in the value of the first or of the
\* last payload row, a text in the first date, no value column, no Date column.
SeriesTable(valcol, dates, variant) ==
    LET n == Len(dates)
        datecol == IF variant = "no_date_col" THEN "Day" ELSE "Date"
        cols == IF variant = "no_value_col" THEN <<datecol, "Open">> ELSE <<datecol, "Open", valcol>>
        val(i) == IF \/ variant = "bad_first" /\ i = 1
                     \/ variant = "bad_last" /\ i = n
                  THEN BadCell ELSE Num(ValOf(i))
    IN  [cols |-> cols,
         col |-> [c \in Range(cols) |->
                     IF c = datecol
                     THEN [i \in 1..n |-> IF variant = "bad_date" /\ i = 1
                                          THEN BadCell ELSE [d |-> dates[i]]]
                     ELSE IF c = "Open" THEN [i \in 1..n |-> Num(1)]
                     ELSE [i \in 1..n |-> val(i)]]]

\* The date columns drawn for n rows: every order of n distinct dates, and two
\* with a repeated date (the two latest rows, the two earliest rows).
DateSeqs(n) ==
    Permutations(1..n)
      \cup {[i \in 1..n |-> IF i = n THEN n - 1 ELSE i], [i \in 1..n |-> IF i = 1 THEN 2 ELSE i]}

Identity(n) == [i \in 1..n |-> i]

CotNames == LongNames \o ShortNames \o LongChgNames \o ShortChgNames

\* A positioning report of two rows, the gold contract first.  kind maps each
\* candidate column name to "absent", "num", "nan" or "bad"; the value of the
\* j-th name of CotNames, when numeric, is CotValue(j), so that a difference
\* tells which two names were read.  `rev` reverses the order of the columns
\* in the file.
CotValue(j) == <<1, 2, 3, 10, 20, 30, 100, 200, 300, 1000, 2000, 3000>>[j]

CotTable(kind, rev, mktcol) ==
    LET fixed == <<mktcol, "As_of_Date_In_Form_YYMMDD">>
        present == SelectSeq(CotNames, LAMBDA c : kind[c] /= "absent")
        cols == IF rev THEN Reverse(fixed \o present) ELSE fixed \o present
        pos(c) == CHOOSE j \in 1..Len(CotNames) : CotNames[j] = c
        cell(c) == CASE kind[c] = "num" -> Num(CotValue(pos(c)))
                     [] kind[c] = "nan" -> NaN
                     [] OTHER -> BadCell
    IN  [cols |-> cols,
         col |-> [c \in Range(cols) |->
                     IF c = mktcol THEN <<"GOLD - COMEX", "SILVER - COMEX">>
                     ELSE IF c = "As_of_Date_In_Form_YYMMDD" THEN <<Num(240102), Num(240102)>>
                     ELSE <<cell(c), Num(0)>>]]

NoGoldTable ==
    [cols |-> <<"Market_and_Exchange_Names", "M_Money_Long_All">>,
     col |-> [c \in {"Market_and_Exchange_Names", "M_Money_Long_All"} |->
                 IF c = "Market_and_Exchange_Names" THEN <<"SILVER - COMEX">> ELSE <<Num(7)>>]]

CotKind(long, short, chg) ==
    [c \in Range(CotNames) |->
        IF \E j \in 1..3 : LongNames[j] = c THEN long[CHOOSE j \in 1..3 : LongNames[j] = c]
        ELSE IF \E j \in 1..3 : ShortNames[j] = c THEN short[CHOOSE j \in 1..3 : ShortNames[j] = c]
        ELSE IF c \in {LongChgNames[1], ShortChgNames[2]} THEN chg
        ELSE "absent"]

GoodWgc == Page([tables |-> <<NoCountryTable, WgcTable(12, <<12, 11, 12>>, FALSE)>>])
GoodGld == Page(SeriesTable("Total Tonnes", Identity(5), "ok"))
GoodIau == Page(SeriesTable("Close", Identity(5), "ok"))
GoodCot == Page(CotTable(CotKind(<<"num", "absent", "absent">>, <<"num", "absent", "absent">>, "num"),
                         FALSE, "Market_and_Exchange_Names"))

Outcomes == {"ok", "http_error", "raise"}

\* The state of the process before run() starts, for a given environment and
\* given answers of the four sources and of the notifier.
Begin(token, chat_id, answers) ==
    /\ TOKEN = token
    /\ CHAT_ID = chat_id
    /\ web = answers
    /\ pc = "start"
    /\ parts = <<>>
    /\ stdout = <<>>
    /\ posts = <<>>
    /\ exc = "none"
    /\ probe = NoProbe

\* A run over answers that fail at each stage or succeed, under every
\* configuration of the credentials and every behaviour of the notifier.
Init ==
    \E token \in {"None", "tok"}, chat_id \in {"", "42"},
       wgc \in {Transport, Page([tables |-> <<>>]), Page([tables |-> <<NoCountryTable>>]),
                Page([tables |-> <<WgcTable(12, <<12, 3, 0>>, FALSE)>>]), GoodWgc},
       gld \in {Transport, Page(SeriesTable("Tonnes", Identity(5), "no_date_col")),
                Page(SeriesTable("Tonnes", Identity(4), "ok")),
                Page(SeriesTable("Tonnes", Identity(5), "bad_last")), GoodGld},
       iau \in {Transport, Page(SeriesTable("Close", Identity(5), "no_value_col")), GoodIau},
       cot \in {Transport, Page(NoGoldTable),
                Page(CotTable(CotKind(<<"bad", "bad", "absent">>, <<"num", "absent", "absent">>, "absent"),
                              FALSE, "Market_and_Exchange_Names")),
                GoodCot},
       tg \in [1..2 -> Outcomes] :
         Begin(token, chat_id, [WGC |-> wgc, GLD |-> gld, IAU |-> iau, COT |-> cot, TG |-> tg])

Spec == Init /\ [][Next]_vars

\* Runs over every series of up to MaxRows rows, in every order of the rows.
InitSeries ==
    \E n \in 3..MaxRows :
      \E dates \in DateSeqs(n),
         variant \in {"ok", "bad_first", "bad_last", "bad_date", "no_value_col", "no_date_col"} :
         Begin("tok", "42",
               [WGC |-> Transport,
                GLD |-> Page(SeriesTable("Tonnes", dates, variant)),
                IAU |-> Page(SeriesTable("Close", dates, variant)),
                COT |-> GoodCot,
                TG |-> <<"raise", "ok">>])

SpecSeries == InitSeries /\ [][Next]_vars

\* Runs over reserves tables around the support threshold.
InitWgc ==
    \E n \in (MinSupport - 1)..MaxTblRows :
      \E k \in [1..3 -> (IF n > 4 THEN n - 4 ELSE 0)..n], lead \in BOOLEAN :
         Begin("tok", "42",
               [WGC |-> Page([tables |-> <<WgcTable(n, k, lead)>>]),
                GLD |-> Transport,
                IAU |-> GoodIau,
                COT |-> GoodCot,
                TG |-> <<"raise", "ok">>])

SpecWgc == InitWgc /\ [][Next]_vars

CellKinds == {"absent", "num", "nan", "bad"}

\* Runs over positioning rows with every presence and readability of the long
\* candidates, several of the short ones, in both column orders.
InitCot ==
    \E long \in [1..3 -> CellKinds],
       short \in {<<"num", "absent", "absent">>, <<"bad", "num", "absent">>,
                  <<"absent", "absent", "absent">>, <<"absent", "nan", "num">>},
       chg \in {"absent", "num"},
       rev \in BOOLEAN :
         Begin("tok", "42",
               [WGC |-> Transport,
                GLD |-> GoodGld,
                IAU |-> GoodIau,
                COT |-> Page(CotTable(CotKind(long, short, chg), rev, "Market_and_Exchange_Names")),
                TG |-> <<"raise", "ok">>])

SpecCot == InitCot /\ [][Next]_vars

NormChars == {"0", "1", ",", "-", "u2212", "en", "em", "x"}

Texts(n) == UNION {[1..m -> NormChars] : m \in 0..n}

Idle ==
    /\ TOKEN = "None"
    /\ CHAT_ID = "None"
    /\ web = [WGC |-> Transport, GLD |-> Transport, IAU |-> Transport, COT |-> Transport,
              TG |-> <<"ok", "ok">>]
    /\ pc = "done"
    /\ parts = <<>>
    /\ stdout = <<>>
    /\ posts = <<>>
    /\ exc = "none"

\* Every cell text of up to MaxCellLen characters.
InitNorm ==
    /\ Idle
    /\ \E cell \in Texts(MaxCellLen) :
         probe = [fn |-> "normalize", arg |-> cell, done |-> FALSE, ret |-> NaN]

SpecNorm == InitNorm /\ [][NormalizeCell]_vars

RankValues == {NaN, Num(-2), Num(1), Num(2)}

\* Every Change column of up to MaxRank rows over RankValues; the country of
\* the first row may be missing.
InitRank ==
    /\ Idle
    /\ \E m \in 0..MaxRank :
         \E change \in [1..m -> RankValues], noname \in BOOLEAN :
            probe = [fn |-> "rank",
                     arg |-> [names |-> [i \in 1..m |-> IF noname /\ i = 1 THEN <<>> ELSE CountryName(i)],
                              change |-> change],
                     done |-> FALSE,
                     ret |-> [order |-> <<>>, lines |-> <<>>]]

SpecRank == InitRank /\ [][RankRows]_vars
(***************************************************************************)
(* Properties                                                              *)
(***************************************************************************)
SourceOrder == <<"WGC", "GLD", "IAU", "COT">>

\* The i-th adapter has returned into run().
Called(i) == Len(parts) >= 2 * i + 1
Section(i) == parts[2 * i + 1]

DoneWhat == {"top5", "holdings", "price", "positioning"}
FailedWhat == {"skipped", "no_tables", "no_country_table", "not_enough_numeric_columns",
               "no_gold_contract", "unparsed_positions"}

Skipped(src, e) == <<StatusLine(src, "skipped"), [k |-> "reason", e |-> e]>>

\* The digest has been printed by run().
Printed == stdout /= <<>> /\ stdout[1][1].k = "header"

\* A text cut at its blank lines.
RECURSIVE Sections(_)
Sections(text) ==
    IF text = <<>> THEN <<<<>>>>
    ELSE LET rest == Sections(Tail(text))
         IN  IF Head(text).k = "" THEN <<<<>>>> \o rest
             ELSE <<<<Head(text)>> \o rest[1]>> \o Tail(rest)

\* C1: whatever the four adapters' outcomes, the printed digest is the header
\* followed by exactly one section per source in the order WGC, GLD, IAU, COT;
\* each section is what that adapter returns for its own answer, and a source
\* that could not be fetched has its failure status in its own slot.
C1_DigestSections ==
    Printed =>
      LET secs == Sections(stdout[1])
      IN  /\ Len(secs) = 5
          /\ secs[1] = <<Header>>
          /\ \A i \in 1..4 :
               /\ secs[i + 1] /= <<>>
               /\ secs[i + 1][1].k = "status"
               /\ secs[i + 1][1].src = SourceOrder[i]
               /\ secs[i + 1][1].what \in DoneWhat \cup FailedWhat
               /\ ~web[SourceOrder[i]].ok =>
                    secs[i + 1] = Skipped(SourceOrder[i], web[SourceOrder[i]].err)
          /\ Ret(secs[2]) \in fetch_wgc(web.WGC)
          /\ Ret(secs[3]) \in fetch_gld(web.GLD)
          /\ Ret(secs[4]) \in fetch_iau(web.IAU)
          /\ Ret(secs[5]) \in fetch_cot(web.COT)

\* One adapter failed (GLD unreachable) and two others succeeded.
C1_Witness ==
    /\ Printed
    /\ ~web.GLD.ok
    /\ Sections(stdout[1])[2][1].what = "top5"
    /\ Sections(stdout[1])[3][1].what = "skipped"
    /\ Sections(stdout[1])[4][1].what = "price"

\* C2: every adapter invocation returns exactly one status naming its source,
\* Done or Failed; a fault of any stage becomes the failure status with its
\* cause, and the only exception that ever reaches __main__ comes from the
\* notifier's post, never from an adapter.
C2_AdaptersReturnStatus ==
    /\ \A i \in 1..4 :
         Called(i) =>
           LET sec == Section(i)
           IN  /\ sec[1].k = "status"
               /\ sec[1].src = SourceOrder[i]
               /\ sec[1].what \in DoneWhat \cup FailedWhat
               /\ sec[1].what = "skipped" => Len(sec) = 2 /\ sec[2].k = "reason"
               /\ ~web[SourceOrder[i]].ok => sec = Skipped(SourceOrder[i], web[SourceOrder[i]].err)
    /\ pc = "wgc" => Len(parts) = 2
    /\ pc = "gld" => Len(parts) = 4
    /\ pc = "iau" => Len(parts) = 6
    /\ pc = "cot" => Len(parts) = 8
    /\ pc \in {"print", "send", "done", "except", "crashed"} => Len(parts) = 9
    /\ (pc \in {"except", "crashed"} \/ exc /= "none") =>
         posts /= <<>> /\ posts[Len(posts)].outcome = "raise"

\* A run ended in which GLD failed while computing (a text where a number was
\* expected) and IAU failed while resolving (no Close column).
C2_Witness ==
    /\ pc = "done"
    /\ Section(2) = Skipped("GLD", "could not convert string to float")
    /\ Section(3) = Skipped("IAU", "KeyError: Close")

\* C3: whenever a fault escaped run(), the process ends normally and the error
\* notification has been delivered through the notifier.
C3_SafetyNetNotifies ==
    (pc \in {"done", "crashed"} /\ posts /= <<>> /\ posts[1].outcome = "raise") =>
      /\ pc = "done"
      /\ \E j \in 1..Len(posts) :
           posts[j].text[1].k = "unhandled_error" /\ posts[j].outcome = "ok"

\* C10: with either credential unusable the run still calls the four
\* adapters, prints the digest and ends normally without any post; a post is
\* made only when both credentials are usable.
C10_LocalOnlyWithoutCredentials ==
    /\ (~Truthy(TOKEN) \/ ~Truthy(CHAT_ID)) =>
         /\ posts = <<>>
         /\ pc \notin {"except", "crashed"}
         /\ pc = "done" =>
              /\ \A i \in 1..4 : Called(i) /\ Section(i)[1].src = SourceOrder[i]
              /\ stdout = <<Join(parts), NoticeText, Join(parts)>>
    /\ posts /= <<>> => Truthy(TOKEN) /\ Truthy(CHAT_ID)

\* A run ended with the token absent and the destination id present.
C10_Witness ==
    /\ pc = "done"
    /\ TOKEN = "None"
    /\ CHAT_ID = "42"
    /\ Len(stdout) = 3
\* The rows of the series df that can stand p-th from the end of df sorted
\* ascending by date: fewer than p rows are later, at least p are not earlier.
CanSit(df, p) ==
    LET n == NRows(df)
        date == [i \in 1..n |-> df.col["Date"][i].d]
    IN  {r \in 1..n : /\ Cardinality({j \in 1..n : date[j] > date[r]}) < p
                      /\ p <= Cardinality({j \in 1..n : date[j] >= date[r]})}

\* The status i reports the latest value and the deltas of the series of
\* source i read in date order, whatever the order of the payload.
DeltasByDate(i, valcol) ==
    (Called(i) /\ Section(i)[1].what \in {"holdings", "price"}) =>
      LET df == web[SourceOrder[i]].body
          sec == Section(i)
          val == df.col[valcol]
      IN  /\ NRows(df) >= Lookback
          /\ \E t \in CanSit(df, 1) :
               /\ val[t] /= BadCell
               /\ sec[2].d = df.col["Date"][t].d
               /\ sec[3].v = val[t].v
               /\ \E p \in CanSit(df, 2) \ {t} :
                    /\ val[p] /= BadCell
                    /\ sec[4].v = val[t].v - val[p].v
                    /\ \E f \in CanSit(df, Lookback) \ {t, p} :
                         /\ val[f] /= BadCell
                         /\ sec[5].v = val[t].v - val[f].v

\* C4: for GLD and IAU the reported latest value is the value of the latest
\* date, the one-step delta is it minus the value of the date before, the
\* n-step delta is it minus the value of the first row of the last five in
\* date order, for every order of the rows in the payload; the series 10, 12,
\* 11, 15, 20 gives 20, +5 and +10.
C4_PeriodDeltas ==
    /\ DeltasByDate(2, "Tonnes")
    /\ DeltasByDate(3, "Close")
    /\ \A i \in {2, 3} :
         (Called(i) /\ Section(i)[1].what \in {"holdings", "price"}
            /\ web[SourceOrder[i]].body.col["Date"] = [r \in 1..5 |-> [d |-> r]]) =>
           Section(i)[3].v = 20 /\ Section(i)[4].v = 5 /\ Section(i)[5].v = 10

\* Six rows arrive latest first; GLD reports the row of the latest date (the
\* first of the payload) against the second and the fifth.
C4_Witness ==
    /\ Called(2)
    /\ Section(2)[1].what = "holdings"
    /\ web.GLD.body.col["Date"] = [r \in 1..6 |-> [d |-> 7 - r]]
    /\ Section(2)[3].v = 10
    /\ Section(2)[4].v = 10 - 12
    /\ Section(2)[5].v = 10 - 20

Insufficient(i) ==
    Section(i) = Skipped(SourceOrder[i],
                         IF i = 2 THEN "GLD history has fewer than 5 rows"
                         ELSE "IAU history has fewer than 5 rows")

\* The payload of source i has a Date column of readable dates and its value
\* column.
Resolves(i, valcol) ==
    LET df == web[SourceOrder[i]].body
    IN  /\ {"Date", valcol} \subseteq Range(df.cols)
        /\ BadCell \notin Range(df.col["Date"])

\* C5 as stated: a series with fewer than lookback + 1 rows (six), its columns
\* being there and its dates readable, gets the insufficient-data status.
C5_NeedsLookbackPlusOne ==
    \A i \in {2, 3} :
      (Called(i) /\ Resolves(i, IF i = 2 THEN "Tonnes" ELSE "Close")
         /\ NRows(web[SourceOrder[i]].body) < Lookback + 1) =>
        Insufficient(i)

\* C5 amended: a series with fewer than five rows (the lookback itself) never
\* yields a latest value or a delta: the adapter fails, IAU always with the
\* insufficient-data status and GLD with it whenever the Date column is there
\* and readable and a Tonnes column is there; five readable rows are enough
\* for a result.
C5_NeedsLookbackRows ==
    \A i \in {2, 3} :
      LET valcol == IF i = 2 THEN "Tonnes" ELSE "Close"
          df == web[SourceOrder[i]].body
      IN  Called(i) =>
            /\ NRows(df) < Lookback =>
                 /\ Section(i)[1].what = "skipped"
                 /\ Len(Section(i)) = 2
                 /\ (i = 3 \/ Resolves(i, valcol)) => Insufficient(i)
            /\ (NRows(df) = Lookback /\ Resolves(i, valcol)
                  /\ BadCell \notin Range(df.col[valcol])) =>
                 Section(i)[1].what \in {"holdings", "price"}

\* A four-row series has been refused by both adapters.
C5_Witness ==
    /\ Called(3)
    /\ NRows(web.GLD.body) = 4
    /\ Insufficient(2)
    /\ Insufficient(3)

\* C6: the ranking returns at most k rows, only rows whose delta is not
\* missing, in descending order of absolute delta with the sign kept, and
\* rows of equal absolute delta in the order of the original table; no row
\* left out outranks a row returned.
C6_RankFirstSeen ==
    (probe.fn = "rank" /\ probe.done) =>
      LET change == probe.arg.change
          names == probe.arg.names
          o == probe.ret.order
          abs(r) == Abs(change[r].v)
          valid == {r \in 1..Len(change) : change[r] /= NaN /\ names[r] /= <<>>}
          before(a, b) == abs(a) > abs(b) \/ (abs(a) = abs(b) /\ a < b)
      IN  /\ Len(o) = (IF Cardinality(valid) < TopK THEN Cardinality(valid) ELSE TopK)
          /\ Range(o) \subseteq valid
          /\ \A a, b \in 1..Len(o) : a < b => before(o[a], o[b])
          /\ \A r \in valid \ Range(o) : \A a \in 1..Len(o) : before(o[a], r)
          /\ \A a \in 1..Len(o) : probe.ret.lines[a].change = change[o[a]].v

\* The cell is a number in text: an optional minus sign in any of the four
\* variants, then digits with comma separators between them.
MinusVariants == {"-", "u2212", "en", "em"}

IsNumericText(cell) ==
    LET signed == cell /= <<>> /\ Head(cell) \in MinusVariants
        body == IF signed THEN Tail(cell) ELSE cell
    IN  /\ body /= <<>>
        /\ \A i \in 1..Len(body) : body[i] \in Digits \cup {","}
        /\ Head(body) \in Digits
        /\ body[Len(body)] \in Digits

CanonicalValue(cell) ==
    LET signed == Head(cell) \in MinusVariants
        body == SelectSeq(IF signed THEN Tail(cell) ELSE cell, LAMBDA c : c \in Digits)
    IN  IF signed THEN -DigitsValue(body) ELSE DigitsValue(body)

\* C7: a numeric text with comma separators and any of the minus-sign variants
\* normalizes to the number its ASCII form denotes; a cell of dashes only, or
\* with a character that is no part of a number, normalizes to missing.
C7_SignVariantsKeepValue ==
    (probe.fn = "normalize" /\ probe.done) =>
      /\ IsNumericText(probe.arg) => probe.ret = Num(CanonicalValue(probe.arg))
      /\ (probe.arg /= <<>> /\ Range(probe.arg) \subseteq {"en", "em"}) => probe.ret = NaN
      /\ "x" \in Range(probe.arg) => probe.ret = NaN

\* The number of numeric cells of a column of a drawn reserves table: every
\* cell but the dash placeholders.
NumericCells(cells) == Cardinality({i \in 1..Len(cells) : cells[i] /= <<"em">>})

\* C8: the two compared columns are the last two, in column order, of the
\* columns with more than 10 non-missing values; a column with 10 or fewer is
\* never compared, and with fewer than two such columns the status is the
\* structural-drift one and no ranking.
C8_SupportThreshold ==
    Called(1) =>
      LET df == web.WGC.body.tables[1]
          qual == SelectSeq(Tail(df.cols), LAMBDA c : NumericCells(df.col[c]) > 10)
          sec == Section(1)
      IN  IF Len(qual) < 2
          THEN sec = <<StatusLine("WGC", "not_enough_numeric_columns")>>
          ELSE /\ sec[1].what = "top5"
               /\ sec[2].prev = qual[Len(qual) - 1]
               /\ sec[2].cur = qual[Len(qual)]
               /\ NumericCells(df.col[sec[2].prev]) > 10
               /\ NumericCells(df.col[sec[2].cur]) > 10

\* Feb has exactly 10 numeric cells and is passed over: Jan is compared to Mar.
C8_Witness ==
    /\ Called(1)
    /\ NumericCells(web.WGC.body.tables[1].col["Feb"]) = 10
    /\ Section(1)[1].what = "top5"
    /\ Section(1)[2].prev = "Jan"
    /\ Section(1)[2].cur = "Mar"

\* The gold row of the drawn positioning report.
GoldRow == [c \in Range(web.COT.body.cols) |-> web.COT.body.col[c][1]]

\* The earliest name of the list for which ok holds, 0 if none.
Earliest(name_list, ok(_)) ==
    LET hit == {j \in 1..Len(name_list) : ok(name_list[j])}
    IN  IF hit = {} THEN 0 ELSE CHOOSE j \in hit : \A h \in hit : j <= h

IsPresent(c) == c \in DOMAIN GoldRow
IsReadable(c) == c \in DOMAIN GoldRow /\ GoldRow[c] /= BadCell

\* The difference of two cells as floats; a text has no value.
CellDiff(a, b) == IF BadCell \in {a, b} THEN [text |-> TRUE] ELSE Sub(a, b)

\* The status of the positioning adapter when each role is resolved by the
\* earliest candidate for which ok holds.
CotResolvedBy(ok(_)) ==
    LET l == Earliest(LongNames, ok)
        s == Earliest(ShortNames, ok)
        lc == Earliest(LongChgNames, ok)
        sc == Earliest(ShortChgNames, ok)
        sec == Section(4)
    IN  IF l = 0 \/ s = 0
        THEN sec = <<StatusLine("COT", "unparsed_positions")>>
        ELSE /\ sec[1].what = "positioning"
             /\ sec[3].v = CellDiff(GoldRow[LongNames[l]], GoldRow[ShortNames[s]])
             /\ IF lc = 0 \/ sc = 0 THEN Len(sec) = 3
                ELSE /\ Len(sec) = 4
                     /\ sec[4].v = CellDiff(GoldRow[LongChgNames[lc]], GoldRow[ShortChgNames[sc]])

\* C9 as stated: each role takes the value of the earliest candidate name
\* present in the row, and is not found only when none is present.
C9_EarliestPresent == Called(4) => CotResolvedBy(IsPresent)

\* C9 amended: each role takes the value of the earliest candidate name that
\* is present in the row and whose value converts to a float, whatever the
\* order of the columns in the row, and is not found only when there is none.
C9_EarliestReadable == Called(4) => CotResolvedBy(IsReadable)

\* The columns come in reverse order, the first long candidate holds a text,
\* the second a number: the net position is computed from the second.
C9_Witness ==
    /\ Called(4)
    /\ Section(4)[1].what = "positioning"
    /\ web.COT.body.cols[1] /= "Market_and_Exchange_Names"
    /\ IsPresent(LongNames[1]) /\ ~IsReadable(LongNames[1])
    /\ IsReadable(LongNames[2])
    /\ IsReadable(ShortNames[1])
    /\ Section(4)[3].v = Num(CotValue(2) - CotValue(4))
====
